---- MODULE Spec2Model ----
(***************************************************************************)
(* A model of the WEDOS API client (src/wedos_api/api.py, models.py).      *)
(*                                                                         *)
(* The client is synchronous and single-threaded: every public operation   *)
(* is one action.  The provider and the wall clock are the environment:    *)
(* each request an operation posts draws the provider's answer (or a       *)
(* transport failure) from a small set, and the clock advances between     *)
(* operations and, for the operations that post several requests, between  *)
(* two of their requests.                                                  *)
(*                                                                         *)
(* Text that the code inspects character by character (status codes,       *)
(* record-type and status names, numbers, dates) is a sequence of          *)
(* one-character strings; text the code only passes around is a string.    *)
(* A Python Optional is a sequence of length 0 (None / absent) or 1.       *)
(***************************************************************************)
EXTENDS Integers, Sequences, FiniteSets, TLC

VARIABLES
    user,       \* WAPI.__user
    key,        \* WAPI.__key
    test_mode,  \* WAPI.__test_mode
    hour,       \* the local hour datetime.now() reports
    sent,       \* the requests posted by the latest step, in order
    result      \* the latest step: the operation's name, arguments and outcome

vars == <<user, key, test_mode, hour, sent, result>>

-----------------------------------------------------------------------------
(* Bounds of the model.                                                    *)

MaxDomains == 2    \* entries in a provider domain collection
MaxRows == 2       \* rows in a provider row collection

-----------------------------------------------------------------------------
(* Python values.                                                          *)

None == <<>>
Some(x) == <<x>>
IsNone(o) == o = <<>>
Get(o) == o[1]

\* JSON scalars: a string (as characters) or an integer.
JStr(s) == [str |-> s]
JInt(n) == [int |-> n]
IsJStr(v) == DOMAIN v = {"str"}

Return(v) == [kind |-> "return", error |-> "", value |-> v]
Raise(e, p) == [kind |-> "raise", error |-> e, value |-> p]
Returned(o) == o.kind = "return"
Raised(o, e) == o.kind = "raise" /\ o.error = e

Digits == <<"0", "1", "2", "3", "4", "5", "6", "7", "8", "9">>
IsDigit(c) == \E i \in 1..10 : Digits[i] = c
DigitVal(c) == (CHOOSE i \in 1..10 : Digits[i] = c) - 1

RECURSIVE NatToStr(_)
NatToStr(n) == IF n < 10 THEN <<Digits[n + 1]>>
               ELSE NatToStr(n \div 10) \o <<Digits[(n % 10) + 1]>>

\* str(n) of a Python int
IntToStr(n) == IF n < 0 THEN <<"-">> \o NatToStr(-n) ELSE NatToStr(n)

RECURSIVE DigitsToNat(_)
DigitsToNat(s) == IF s = <<>> THEN 0
                  ELSE 10 * DigitsToNat(SubSeq(s, 1, Len(s) - 1)) + DigitVal(s[Len(s)])

AllDigits(s) == s # <<>> /\ \A i \in 1..Len(s) : IsDigit(s[i])

\* int(s) of a Python str: an optional sign and decimal digits, else ValueError
ParseInt(s) ==
    IF AllDigits(s) THEN Return(DigitsToNat(s))
    ELSE IF s # <<>> /\ s[1] = "-" /\ AllDigits(Tail(s)) THEN Return(-DigitsToNat(Tail(s)))
    ELSE IF s # <<>> /\ s[1] = "+" /\ AllDigits(Tail(s)) THEN Return(DigitsToNat(Tail(s)))
    ELSE Raise("ValueError", s)

\* str(v) of a decoded JSON scalar
PyStr(v) == IF IsJStr(v) THEN v.str ELSE IntToStr(v.int)

\* int(v) of a decoded JSON scalar
PyInt(v) == IF IsJStr(v) THEN ParseInt(v.str) ELSE Return(v.int)

startswith(s, c) == s # <<>> /\ s[1] = c

Lower == <<"a", "b", "c", "d", "e", "f", "g", "h", "i", "j", "k", "l", "m",
           "n", "o", "p", "q", "r", "s", "t", "u", "v", "w", "x", "y", "z">>
Upper == <<"A", "B", "C", "D", "E", "F", "G", "H", "I", "J", "K", "L", "M",
           "N", "O", "P", "Q", "R", "S", "T", "U", "V", "W", "X", "Y", "Z">>

UpperChar(c) == IF \E i \in 1..26 : Lower[i] = c
                THEN Upper[CHOOSE i \in 1..26 : Lower[i] = c]
                ELSE c

\* str.upper()
upper(s) == [i \in 1..Len(s) |-> UpperChar(s[i])]

\* zero-padded decimal of width w (strftime's %H, %m, ...)
RECURSIVE Pad(_, _)
Pad(s, w) == IF Len(s) >= w THEN s ELSE Pad(<<"0">> \o s, w)

-----------------------------------------------------------------------------
(* models.py                                                               *)

WAPIRequest(u, a, c, cid, d, t) ==
    [user |-> u, auth |-> a, command |-> c, command_id |-> cid, data |-> d, test |-> t]

WAPIResponse(code, res, ts, cid, sid, cmd, d, t) ==
    [code |-> code, result |-> res, timestamp |-> ts, command_id |-> cid,
     server_command_id |-> sid, command |-> cmd, data |-> d, test |-> t]

\* Enum.__members__ in definition order: name and value of each member
WAPIDomainStatus == << [name |-> <<"A","C","T","I","V","E">>, value |-> <<"A","C","T","I","V","E">>] >>

WAPIDomainRecordType ==
    << [name |-> <<"A">>, value |-> <<"A">>],
       [name |-> <<"A","A","A","A">>, value |-> <<"A","A","A","A">>],
       [name |-> <<"M","X">>, value |-> <<"M","X">>],
       [name |-> <<"S","S","H","F","P">>, value |-> <<"S","S","H","F","P">>],
       [name |-> <<"T","X","T">>, value |-> <<"T","X","T">>] >>

WAPIDomainRecord(id, name, ttl, rt, content, changed, ac) ==
    [id |-> id, name |-> name, ttl |-> ttl, record_type |-> rt, content |-> content,
     changed |-> changed, author_comment |-> ac]

-----------------------------------------------------------------------------
(* The environment: the provider's answer to one request.                  *)

\* What the network does with one posted request: the transport fails, or the
\* provider answers with an envelope whose code, data and test fields are as
\* given (each may be absent) and whose other fields are present.
Net(up, code, data, test) == [up |-> up, code |-> code, data |-> data, test |-> test]

\* The decoded response envelope json()['response'] for a posted body.
Envelope(body, net) ==
    [code |-> net.code,
     result |-> IF ~IsNone(net.code) /\ startswith(PyStr(Get(net.code)), "1") THEN "OK" ELSE "Error",
     timestamp |-> "ts",
     clTRID |-> body.clTRID,
     svTRID |-> "sv",
     command |-> body.command,
     data |-> net.data,
     test |-> net.test]

-----------------------------------------------------------------------------
(* WAPI                                                                    *)

\* hashlib.sha1(x).hexdigest(): an injective digest
sha1(x) == [sha1 |-> x]

\* the hour of the 12-hour clock, strftime('%I')
strftime_I(now) == Pad(NatToStr(IF now % 12 = 0 THEN 12 ELSE now % 12), 2)

\* datetime.now().strftime('%H')
strftime_H(now) == Pad(NatToStr(now), 2)

\* The concatenation user + hex digest + hour: the digest has a fixed width of
\* 40 and the hour of 2, so the three parts determine the string and back.
get_auth(self, now) == sha1(<<self.user, sha1(self.key), strftime_H(now)>>)

\* json_body that never sets the test flag
json_body_no_test(request) ==
    [command |-> request.command,
     auth |-> request.auth,
     user |-> request.user,
     test |-> 0,
     data |-> request.data,
     clTRID |-> request.command]

\* The JSON document make_request posts for a request (json.dumps)
json_body(request) ==
    [command |-> request.command,
     auth |-> request.auth,
     user |-> request.user,
     test |-> IF request.test THEN 1 ELSE 0,
     data |-> request.data,
     clTRID |-> request.command]

\* The WAPIResponse make_request builds of a response with a success code;
\* test is the outcome of int(resp.get('test', 0))
response_of(resp, test) ==
    IF Returned(test)
    THEN Return(WAPIResponse(Get(resp.code), resp.result, resp.timestamp, resp.clTRID,
                             resp.svTRID, resp.command, resp.data, test.value = 1))
    ELSE test

\* check_response comparing the code with '1000' instead of testing its prefix
check_response_exact(resp, code) ==
    IF IsJStr(code) /\ code.str = <<"1", "0", "0", "0">>
    THEN response_of(resp, IF IsNone(resp.test) THEN Return(0) ELSE PyInt(Get(resp.test)))
    ELSE Raise("WAPIError", Some(resp))

\* What make_request does with the decoded response; code is
\* resp.get('code', '3000')
check_response(resp, code) ==
    IF startswith(PyStr(code), "1")
    THEN response_of(resp, IF IsNone(resp.test) THEN Return(0) ELSE PyInt(Get(resp.test)))
    ELSE Raise("WAPIError", Some(resp))

\* req.post(...).json()['response'] and what follows it in make_request
receive(resp, net) ==
    IF ~net.up THEN Raise("ConnectionError", None)
    ELSE check_response(resp, IF IsNone(resp.code) THEN JStr(<<"3", "0", "0", "0">>)
                              ELSE Get(resp.code))

\* One exchange: the request as posted at hour now with the provider's answer,
\* and the outcome of the call
exchange(request, body, now, net) ==
    [post |-> [request |-> request, body |-> body, hour |-> now, net |-> net],
     out |-> receive(Envelope(body, net), net)]

post_request(request, now, net) == exchange(request, json_body(request), now, net)

\* WAPI.make_request
make_request(self, command, data, command_id, now, net) ==
    post_request(WAPIRequest(self.user, get_auth(self, now), command, command_id, data,
                             self.test_mode),
                 now, net)

\* A lookup that falls back to the first member when no name matches
RECURSIVE member_named_or_first(_, _, _)
member_named_or_first(members, s, i) ==
    IF i > Len(members) THEN Return(members[1])
    ELSE IF members[i].name = s THEN Return(members[i])
    ELSE member_named_or_first(members, s, i + 1)

\* The loop of __str_to_domain_status and of __str_to_record_type over the
\* members of an Enum, from the i-th on: the member whose name is s, or
\* WAPIError when no member has it
RECURSIVE member_named(_, _, _)
member_named(members, s, i) ==
    IF i > Len(members) THEN Raise("WAPIError", s)
    ELSE IF members[i].name = s THEN Return(members[i])
    ELSE member_named(members, s, i + 1)

\* WAPI.__str_to_domain_status
str_to_domain_status(domain_status_str) ==
    member_named(WAPIDomainStatus, upper(domain_status_str), 1)

-----------------------------------------------------------------------------
(* datetime.strptime / strftime with WAPI.date_format '%Y-%m-%d %H:%M:%S'  *)

\* the index just after the run of digits of s that starts at i
RECURSIVE DigitsEnd(_, _)
DigitsEnd(s, i) == IF i <= Len(s) /\ IsDigit(s[i]) THEN DigitsEnd(s, i + 1) ELSE i

\* the index just after the run of blanks of s that starts at i
RECURSIVE BlanksEnd(_, _)
BlanksEnd(s, i) == IF i <= Len(s) /\ s[i] = " " THEN BlanksEnd(s, i + 1) ELSE i

IsLeap(y) == (y % 4 = 0 /\ y % 100 # 0) \/ y % 400 = 0

DaysInMonth(y, m) ==
    IF m = 2 THEN (IF IsLeap(y) THEN 29 ELSE 28)
    ELSE IF m \in {4, 6, 9, 11} THEN 30 ELSE 31

\* The directives of date_format as strptime's regular expression reads them:
\* a run of lo..hi digits with a value in min..max, then the separator
\* ("" at the end of the text).
\*   %Y \d\d\d\d   %m 1[0-2]|0[1-9]|[1-9]   %d 3[01]|[12]\d|0[1-9]|[1-9]| [1-9]
\*   %H 2[0-3]|[0-1]\d|\d   %M [0-5]\d|\d   %S 6[01]|[0-5]\d|\d
Directives ==
    << [lo |-> 4, hi |-> 4, min |-> 0, max |-> 9999, sep |-> "-"],
       [lo |-> 1, hi |-> 2, min |-> 1, max |-> 12, sep |-> "-"],
       [lo |-> 1, hi |-> 2, min |-> 1, max |-> 31, sep |-> " "],
       [lo |-> 1, hi |-> 2, min |-> 0, max |-> 23, sep |-> ":"],
       [lo |-> 1, hi |-> 2, min |-> 0, max |-> 59, sep |-> ":"],
       [lo |-> 1, hi |-> 2, min |-> 0, max |-> 61, sep |-> ""] >>

\* %d also matches a blank and one digit 1-9
BlankDay == [lo |-> 1, hi |-> 1, min |-> 1, max |-> 9, sep |-> " "]

\* datetime(*fields): the date must exist and the second be below 60
make_datetime(s, f) ==
    IF f[1] < 1 \/ f[3] > DaysInMonth(f[1], f[2]) \/ f[6] > 59 THEN Raise("ValueError", s)
    ELSE Return([year |-> f[1], month |-> f[2], day |-> f[3],
                 hour |-> f[4], minute |-> f[5], second |-> f[6]])

\* Whether the digits s[i..e-1] and the character after them match directive d
Matches(s, i, e, d) ==
    /\ e - i >= d.lo /\ e - i <= d.hi
    /\ DigitsToNat(SubSeq(s, i, e - 1)) >= d.min
    /\ DigitsToNat(SubSeq(s, i, e - 1)) <= d.max
    /\ IF d.sep = "" THEN e = Len(s) + 1 ELSE e <= Len(s) /\ s[e] = d.sep

RECURSIVE parse_from(_, _, _, _)
RECURSIVE parse_field(_, _, _, _, _, _)

\* The k-th directive, read at index i of s where its digits end before e
parse_field(s, i, e, d, k, acc) ==
    IF Matches(s, i, e, d)
    THEN parse_from(s, e + 1, k + 1, Append(acc, DigitsToNat(SubSeq(s, i, e - 1))))
    ELSE Raise("ValueError", s)

\* The directives from the k-th on, read at index i of s; the blank of the
\* format matches any run of blanks (\s+)
parse_from(s, i, k, acc) ==
    IF k > Len(Directives) THEN make_datetime(s, acc)
    ELSE IF k = 3 /\ i <= Len(s) /\ s[i] = " "
    THEN parse_field(s, i + 1, DigitsEnd(s, i + 1), BlankDay, k, acc)
    ELSE IF k = 4
    THEN parse_field(s, BlanksEnd(s, i), DigitsEnd(s, BlanksEnd(s, i)), Directives[k], k, acc)
    ELSE parse_field(s, i, DigitsEnd(s, i), Directives[k], k, acc)

\* datetime.strptime(s, date_format): the datetime, or ValueError
strptime(s) == parse_from(s, 1, 1, <<>>)

\* datetime.strftime(date_format).  %m %d %H %M %S are zero-padded to two
\* digits; %Y is zero-padded to four digits or not padded at all, depending
\* on the C library the interpreter formats with (padY).
strftime(dt, padY) ==
    (IF padY THEN Pad(NatToStr(dt.year), 4) ELSE NatToStr(dt.year))
    \o <<"-">> \o Pad(NatToStr(dt.month), 2)
    \o <<"-">> \o Pad(NatToStr(dt.day), 2)
    \o <<" ">> \o Pad(NatToStr(dt.hour), 2)
    \o <<":">> \o Pad(NatToStr(dt.minute), 2)
    \o <<":">> \o Pad(NatToStr(dt.second), 2)

-----------------------------------------------------------------------------
(* WAPIDomain                                                              *)

\* WAPIDomain.__init__ (the api is the one client of the model)
WAPIDomain(domain, is_primary, status) ==
    [domain |-> domain, is_primary |-> is_primary, status |-> status]

\* WAPI.open_domain
open_domain(domain) == WAPIDomain(domain, None, None)

\* WAPIDomain.__str_to_record_type
str_to_record_type(record_type_str) ==
    member_named(WAPIDomainRecordType, upper(record_type_str), 1)

\* WAPIDomain.__row_dict_to_row once its fallible arguments are evaluated: the
\* first that failed, in the order of the call, decides the error
row_of(row_dict, id, ttl, rt, changed) ==
    IF ~Returned(id) THEN id
    ELSE IF ~Returned(ttl) THEN ttl
    ELSE IF ~Returned(rt) THEN rt
    ELSE IF ~Returned(changed) THEN changed
    ELSE Return(WAPIDomainRecord(id.value, row_dict.name, ttl.value, rt.value,
                                 row_dict.rdata, changed.value, row_dict.author_comment))

\* WAPIDomain.__row_dict_to_row
row_dict_to_row(row_dict) ==
    row_of(row_dict, ParseInt(row_dict.ID), ParseInt(row_dict.ttl),
           str_to_record_type(row_dict.rdtype), strptime(row_dict.changed_date))

\* bool(x) of a dict, a list or None
Truthy(x) == x # <<>>

\* One call's contribution to an operation: the requests it posted, its outcome
Done(posts, out) == [posts |-> posts, out |-> out]

\* ping with a bare except: every failure answers FALSE
ping_of_bare_except(r) ==
    Done(<<r.post>>, IF Returned(r.out) THEN Return(TRUE) ELSE Return(FALSE))

\* WAPI.ping, after its request
ping_of(r) ==
    Done(<<r.post>>,
         IF Returned(r.out) THEN Return(TRUE)
         ELSE IF Raised(r.out, "WAPIError") THEN Return(FALSE)
         ELSE r.out)

\* WAPI.ping
ping(self, now, net) == ping_of(make_request(self, "ping", None, None, now, net))

\* One step of the generator WAPI.domains: the Domain made of one entry, whose
\* status text decoded to status
domain_with(domain_dict, status) ==
    IF Returned(status)
    THEN Return(WAPIDomain(domain_dict.name, Some(domain_dict.type = "primary"),
                           Some(status.value)))
    ELSE status

domain_of(domain_dict) == domain_with(domain_dict, str_to_domain_status(domain_dict.status))

\* list(...) of a lazy sequence given as the outcomes of its steps: the values
\* up to the first failure, and that failure if there is one
RECURSIVE Collect(_, _)
Collect(outs, acc) ==
    IF outs = <<>> THEN Return(acc)
    ELSE IF Returned(Head(outs)) THEN Collect(Tail(outs), Append(acc, Head(outs).value))
    ELSE Head(outs)

\* WAPI.domains that stops after the first entry
domain_entries_first(request_data) ==
    IF IsNone(request_data) \/ ~Truthy(Get(request_data)) THEN <<>>
    ELSE IF ~Truthy(Get(request_data).domain) THEN <<>>
    ELSE <<Get(request_data).domain[1].value>>

\* The entries the generator WAPI.domains iterates over: the values of
\* request_data['domain'], or nothing when the data or the collection is empty
domain_entries(request_data) ==
    IF IsNone(request_data) \/ ~Truthy(Get(request_data)) THEN <<>>
    ELSE IF ~Truthy(Get(request_data).domain) THEN <<>>
    ELSE [i \in 1..Len(Get(request_data).domain) |-> Get(request_data).domain[i].value]

\* WAPI.domains, iterated to the end, after its request
domains_of(r) ==
    Done(<<r.post>>,
         IF ~Returned(r.out) THEN r.out
         ELSE Collect([i \in 1..Len(domain_entries(r.out.value.data)) |->
                          domain_of(domain_entries(r.out.value.data)[i])], <<>>))

\* WAPI.domains, iterated to the end
domains(self, now, net) ==
    domains_of(make_request(self, "dns-domains-list", None, None, now, net))

\* The rows WAPIDomain.records maps over: request_data['row'], or nothing
\* when the data or the collection is empty
row_entries(request_data) ==
    IF IsNone(request_data) \/ ~Truthy(Get(request_data)) THEN <<>>
    ELSE IF ~Truthy(Get(request_data).row) THEN <<>>
    ELSE Get(request_data).row

\* WAPIDomain.records, iterated to the end, after its request
records_of(r) ==
    Done(<<r.post>>,
         IF ~Returned(r.out) THEN r.out
         ELSE Collect([i \in 1..Len(row_entries(r.out.value.data)) |->
                          row_dict_to_row(row_entries(r.out.value.data)[i])], <<>>))

\* WAPIDomain.records, iterated to the end
records(h, self, now, net) ==
    records_of(make_request(self, "dns-rows-list", Some([domain |-> h.domain]), None, now, net))

\* The body of the loop of WAPIDomain.records_as_dict
record_as_dict(x, padY) ==
    [id |-> x.id, name |-> x.name, ttl |-> x.ttl,
     record_type |-> x.record_type.value,
     content |-> x.content,
     changed |-> strftime(x.changed, padY),
     author_comment |-> x.author_comment]

\* WAPIDomain.records_as_dict over the records r, iterated to the end
dicts_of(r, padY) ==
    Done(r.posts,
         IF ~Returned(r.out) THEN r.out
         ELSE Return([i \in 1..Len(r.out.value) |-> record_as_dict(r.out.value[i], padY)]))

\* WAPIDomain.records_as_dict, iterated to the end
records_as_dict(h, self, now, net, padY) == dicts_of(records(h, self, now, net), padY)

\* A call that returns nothing once its request succeeded
returns_none(r) == Done(<<r.post>>, IF Returned(r.out) THEN Return(None) ELSE r.out)

\* add_record that publishes at once: a commit request follows the edit
add_record_autocommit(h, self, name, record_type, content, ttl, now, net) ==
    Done(<<make_request(self, "dns-row-add",
                        Some([domain |-> h.domain, name |-> name, ttl |-> ttl,
                              type |-> record_type.value, rdata |-> content]),
                        None, now, net).post,
           make_request(self, "dns-domain-commit", Some([name |-> h.domain]),
                        None, now, net).post>>,
         Return(None))

\* WAPIDomain.add_record
add_record(h, self, name, record_type, content, ttl, now, net) ==
    returns_none(make_request(self, "dns-row-add",
                              Some([domain |-> h.domain, name |-> name, ttl |-> ttl,
                                    type |-> record_type.value, rdata |-> content]),
                              None, now, net))

\* WAPIDomain.remove_record
remove_record(h, self, record, now, net) ==
    returns_none(make_request(self, "dns-row-delete",
                              Some([domain |-> h.domain, row_id |-> record.id]),
                              None, now, net))

\* WAPIDomain.commit
commit(h, self, now, net) ==
    returns_none(make_request(self, "dns-domain-commit", Some([name |-> h.domain]),
                              None, now, net))

\* The hour datetime.now() reports for the k-th request of an operation that
\* starts at hour h0, when the hour rolls over before its tick-th request
\* (tick = 0: it does not roll over during the operation)
NowAt(h0, tick, k) == IF tick # 0 /\ k >= tick THEN (h0 + 1) % 24 ELSE h0

RECURSIVE snapshot_from(_, _, _, _, _, _, _, _)
RECURSIVE snapshot_domain(_, _, _, _, _, _, _, _, _)
RECURSIVE snapshot_records(_, _, _, _, _, _, _, _, _, _)

\* A dict comprehension that leaves out the Domain whose records failed
snapshot_records_skip(self, entries, i, clock, nets, padY, posts, acc, domain, r) ==
    IF ~Returned(r.out)
    THEN snapshot_from(self, entries, i + 1, clock, nets, padY, posts \o r.posts, acc)
    ELSE snapshot_from(self, entries, i + 1, clock, nets, padY, posts \o r.posts,
                       (domain.domain :> r.out.value) @@ acc)

\* The dict comprehension of WAPI.domains_as_dict once the records_as_dict r
\* of the i-th Domain are listed
snapshot_records(self, entries, i, clock, nets, padY, posts, acc, domain, r) ==
    IF ~Returned(r.out) THEN Done(posts \o r.posts, r.out)
    ELSE snapshot_from(self, entries, i + 1, clock, nets, padY, posts \o r.posts,
                       (domain.domain :> r.out.value) @@ acc)

\* The dict comprehension once the generator made (or failed to make) the
\* i-th Domain
snapshot_domain(self, entries, i, clock, nets, padY, posts, acc, domain) ==
    IF ~Returned(domain) THEN Done(posts, domain)
    ELSE snapshot_records(self, entries, i, clock, nets, padY, posts, acc, domain.value,
                          records_as_dict(domain.value, self, NowAt(clock[1], clock[2], i + 1),
                                          nets[i + 1], padY))

\* The dict comprehension of WAPI.domains_as_dict from the i-th entry on
snapshot_from(self, entries, i, clock, nets, padY, posts, acc) ==
    IF i > Len(entries) THEN Done(posts, Return(acc))
    ELSE snapshot_domain(self, entries, i, clock, nets, padY, posts, acc, domain_of(entries[i]))

\* WAPI.domains_as_dict, after the listing request
snapshot_of(self, clock, nets, padY, r) ==
    IF ~Returned(r.out) THEN Done(<<r.post>>, r.out)
    ELSE snapshot_from(self, domain_entries(r.out.value.data), 1, clock, nets, padY,
                       <<r.post>>, <<>>)

\* WAPI.domains_as_dict
domains_as_dict(self, h0, tick, nets, padY) ==
    snapshot_of(self, <<h0, tick>>, nets, padY,
                make_request(self, "dns-domains-list", None, None, NowAt(h0, tick, 1), nets[1]))

-----------------------------------------------------------------------------
(* Inputs.                                                                 *)

Users == {"alice", "bob"}
Keys == {"k1", "k2"}
DomainNames == {"a.cz", "b.cz"}
Handles == {open_domain(n) : n \in DomainNames}

S1000 == <<"1", "0", "0", "0">>
S2999 == <<"2", "9", "9", "9">>

\* Status codes of a response: absent, as text, as a number
Codes ==
    {None, Some(JStr(S1000)), Some(JStr(S2999)), Some(JStr(<<"1">>)), Some(JStr(<<>>)),
     Some(JStr(<<"0", "1">>)), Some(JStr(<<"3", "1", "0", "0">>)),
     Some(JInt(1000)), Some(JInt(2999)), Some(JInt(1)), Some(JInt(0)), Some(JInt(10)),
     Some(JInt(-1)), Some(JInt(21))}

Down == Net(FALSE, None, None, None)
Ok(data) == Net(TRUE, Some(JStr(S1000)), data, None)
Err == Net(TRUE, Some(JStr(S2999)), None, None)

\* Answers that differ in the status code and in the optional fields
CodeNets ==
    {Down}
    \cup {Net(TRUE, c, None, t) : c \in Codes, t \in {None, Some(JInt(1))}}
    \cup {Net(TRUE, c, Some(<<>>), Some(JStr(<<"0">>))) : c \in {Some(JInt(1000)), Some(JStr(S2999))}}

\* Sequences over S of length at most n
RECURSIVE SeqsUpTo(_, _)
SeqsUpTo(S, n) ==
    IF n = 0 THEN {<<>>}
    ELSE LET shorter == SeqsUpTo(S, n - 1)
         IN shorter \cup {Append(s, x) : s \in {t \in shorter : Len(t) = n - 1}, x \in S}

\* A JSON object with the given values, in order, under the keys "0", "1", ...
Object(values) == [i \in 1..Len(values) |-> [key |-> NatToStr(i - 1), value |-> values[i]]]

DateStr(Y, m, d, sep, H, M, S) ==
    Y \o <<"-">> \o m \o <<"-">> \o d \o sep \o H \o <<":">> \o M \o <<":">> \o S

D00 == <<"0", "0">>
D01 == <<"0", "1">>
Y2024 == <<"2", "0", "2", "4">>
Date2024 == DateStr(Y2024, D01, D01, <<" ">>, D00, D00, D00)

\* changed_date texts in the format YYYY-MM-DD HH:MM:SS that name a date
PaddedDates ==
    {Date2024,
     DateStr(<<"2", "0", "2", "3">>, <<"1", "2">>, <<"3", "1">>, <<" ">>, <<"2", "3">>, <<"5", "9">>, <<"5", "9">>),
     DateStr(Y2024, <<"0", "2">>, <<"2", "9">>, <<" ">>, <<"1", "2">>, <<"0", "5">>, <<"0", "9">>),
     DateStr(<<"1", "0", "0", "0">>, <<"1", "0">>, <<"1", "0">>, <<" ">>, <<"1", "0">>, <<"1", "0">>, <<"1", "0">>),
     DateStr(<<"0", "9", "9", "9">>, D01, D01, <<" ">>, D00, D00, D00)}

\* other changed_date texts: some strptime accepts, some it refuses
OtherDates ==
    {DateStr(Y2024, <<"1">>, <<"1">>, <<" ">>, <<"0">>, <<"0">>, <<"0">>),
     DateStr(Y2024, D01, <<" ", "1">>, <<" ">>, D00, D00, D00),
     DateStr(Y2024, D01, D01, <<" ", " ">>, D00, D00, D00),
     DateStr(Y2024, D01, D01, <<"T">>, D00, D00, D00),
     DateStr(<<"2", "0", "2", "3">>, <<"0", "2">>, <<"2", "9">>, <<" ">>, D00, D00, D00),
     DateStr(Y2024, <<"1", "3">>, D01, <<" ">>, D00, D00, D00),
     DateStr(Y2024, D01, D01, <<" ">>, <<"2", "4">>, D00, D00),
     DateStr(Y2024, D01, D01, <<" ">>, D00, D00, <<"6", "0">>),
     DateStr(<<"0", "0", "0", "0">>, D01, D01, <<" ">>, D00, D00, D00),
     DateStr(<<"2", "4">>, D01, D01, <<" ">>, D00, D00, D00),
     <<>>}

CNAMEX == <<"C", "N", "A", "M", "E", "X">>

\* rdtype texts: the member names in several letter cases, and others
RecordTypeStrs ==
    {<<"a">>, <<"A">>, <<"a", "a", "a", "a">>, <<"A", "a", "A", "a">>, <<"M", "x">>, <<"m", "x">>,
     <<"s", "s", "h", "f", "p">>, <<"S", "S", "H", "F", "P">>, <<"t", "X", "t">>,
     CNAMEX, <<"c", "n", "a", "m", "e">>, <<"A", "A">>, <<"A", " ">>, <<"m", "x", "x">>, <<>>}

\* status texts
StatusStrs ==
    {<<"a", "c", "t", "i", "v", "e">>, <<"A", "C", "T", "I", "V", "E">>, <<"A", "c", "t", "i", "v", "E">>,
     <<"e", "x", "p", "i", "r", "e", "d">>, <<"A", "C", "T", "I", "V">>, <<>>}

\* A provider row
Row(id, rdtype, changed_date) ==
    [ID |-> id, name |-> "www", ttl |-> <<"1", "8", "0", "0">>, rdtype |-> rdtype,
     rdata |-> "1.2.3.4", changed_date |-> changed_date, author_comment |-> ""]

\* A provider domain entry
Entry(name, type, status) == [name |-> name, type |-> type, status |-> status]

Rows == {Row(<<"5">>, t, d) : t \in RecordTypeStrs, d \in PaddedDates \cup OtherDates}

RowA == Row(<<"5">>, <<"a">>, Date2024)
RowTxt == Row(<<"1", "2">>, <<"T", "x", "t">>, Date2024)
RowCnamex == Row(<<"7">>, CNAMEX, Date2024)
FewRows == {RowA, RowTxt, RowCnamex}

Entries == {Entry(n, t, s) : n \in DomainNames, t \in {"primary", "secondary"}, s \in StatusStrs}

FewEntries == {Entry("a.cz", "primary", <<"a", "c", "t", "i", "v", "e">>),
               Entry("b.cz", "secondary", <<"A", "C", "T", "I", "V", "E">>),
               Entry("b.cz", "primary", <<"e", "x", "p", "i", "r", "e", "d">>)}

\* Answers to dns-rows-list with the given row collections
RowNets(lists) ==
    {Down, Err, Ok(None), Ok(Some(<<>>))} \cup {Ok(Some([row |-> l])) : l \in lists}

\* Answers to dns-domains-list with the given domain collections
DomainNets(lists) ==
    {Down, Err, Ok(None), Ok(Some(<<>>))} \cup {Ok(Some([domain |-> Object(l)])) : l \in lists}

\* ttl of add_record when the caller gives none
DefaultTtl == 1800

-----------------------------------------------------------------------------
(* The state machine.                                                      *)

Self == [user |-> user, key |-> key, test_mode |-> test_mode]

\* WAPI.__init__ by a caller with the given credentials, at one of the hours
InitAt(us, ks, hs) ==
    /\ user \in us
    /\ key \in ks
    /\ test_mode = FALSE
    /\ hour \in hs
    /\ sent = <<>>
    /\ result = [op |-> "__init__", args |-> <<>>, out |-> Return(None)]

Init == InitAt(Users, Keys, {9})

\* WAPI.set_test_mode
SetTestMode ==
    \E enabled \in BOOLEAN :
        /\ test_mode' = enabled
        /\ sent' = <<>>
        /\ result' = [op |-> "set_test_mode", args |-> <<enabled>>, out |-> Return(None)]
        /\ UNCHANGED <<user, key, hour>>

\* The local clock reaches the next hour while the client is idle
Tick ==
    /\ hour' = (hour + 1) % 24
    /\ sent' = <<>>
    /\ result' = [op |-> "tick", args |-> <<>>, out |-> Return(None)]
    /\ UNCHANGED <<user, key, test_mode>>

MakeRequest(commands, datas, ids, nets) ==
    \E command \in commands, data \in datas, command_id \in ids, net \in nets :
        \E r \in {make_request(Self, command, data, command_id, hour, net)} :
            /\ sent' = <<r.post>>
            /\ result' = [op |-> "make_request", args |-> <<command, data, command_id>>,
                          out |-> r.out]
            /\ UNCHANGED <<user, key, test_mode, hour>>

Ping(nets) ==
    \E net \in nets :
        \E d \in {ping(Self, hour, net)} :
            /\ sent' = d.posts
            /\ result' = [op |-> "ping", args |-> <<>>, out |-> d.out]
            /\ UNCHANGED <<user, key, test_mode, hour>>

\* list(api.domains)
Domains(nets) ==
    \E net \in nets :
        \E d \in {domains(Self, hour, net)} :
            /\ sent' = d.posts
            /\ result' = [op |-> "domains", args |-> <<>>, out |-> d.out]
            /\ UNCHANGED <<user, key, test_mode, hour>>

\* list(h.records)
Records(handles, nets) ==
    \E h \in handles, net \in nets :
        \E d \in {records(h, Self, hour, net)} :
            /\ sent' = d.posts
            /\ result' = [op |-> "records", args |-> <<h>>, out |-> d.out]
            /\ UNCHANGED <<user, key, test_mode, hour>>

\* list(h.records_as_dict)
RecordsAsDict(handles, nets, pads) ==
    \E h \in handles, net \in nets, padY \in pads :
        \E d \in {records_as_dict(h, Self, hour, net, padY)} :
            /\ sent' = d.posts
            /\ result' = [op |-> "records_as_dict", args |-> <<h>>, out |-> d.out]
            /\ UNCHANGED <<user, key, test_mode, hour>>

AddRecord(handles, nets, names, types, ttls) ==
    \E h \in handles, net \in nets, name \in names, i \in types, ttl \in ttls :
        \E d \in {add_record(h, Self, name, WAPIDomainRecordType[i], "1.2.3.4", ttl, hour, net)} :
            /\ sent' = d.posts
            /\ result' = [op |-> "add_record",
                          args |-> <<h, name, WAPIDomainRecordType[i], "1.2.3.4", ttl>>,
                          out |-> d.out]
            /\ UNCHANGED <<user, key, test_mode, hour>>

\* remove_record of a record that a listing decoded
RemoveRecord(handles, nets, rows) ==
    \E h \in handles, net \in nets, row \in rows :
        \E record \in {row_dict_to_row(row)} :
            /\ Returned(record)
            /\ \E d \in {remove_record(h, Self, record.value, hour, net)} :
                /\ sent' = d.posts
                /\ result' = [op |-> "remove_record", args |-> <<h, record.value>>,
                              out |-> d.out]
                /\ UNCHANGED <<user, key, test_mode, hour>>

Commit(handles, nets) ==
    \E h \in handles, net \in nets :
        \E d \in {commit(h, Self, hour, net)} :
            /\ sent' = d.posts
            /\ result' = [op |-> "commit", args |-> <<h>>, out |-> d.out]
            /\ UNCHANGED <<user, key, test_mode, hour>>

\* The number of entries domains_as_dict may list rows for, given the answer
\* to its listing request
Listed(first) ==
    IF first.up /\ ~IsNone(first.code) /\ startswith(PyStr(Get(first.code)), "1")
    THEN Len(domain_entries(first.data)) ELSE 0

\* WAPI.domains_as_dict: one answer for the listing and one for each entry's
\* rows; the hour may roll over before one of the requests
DomainsAsDict(listings, rownets, ticks, pads) ==
    \E first \in listings, tick \in ticks, padY \in pads :
        \E rest \in [1..Listed(first) -> rownets] :
            \E d \in {domains_as_dict(Self, hour, tick, <<first>> \o rest, padY)} :
                /\ tick <= Len(d.posts)
                /\ sent' = d.posts
                /\ result' = [op |-> "domains_as_dict", args |-> <<>>, out |-> d.out]
                /\ hour' = NowAt(hour, tick, Len(d.posts))
                /\ UNCHANGED <<user, key, test_mode>>

-----------------------------------------------------------------------------
(* Specifications.                                                         *)

LeanNets == {Down, Err, Ok(None)}
Active == <<"a", "c", "t", "i", "v", "e">>
TwoEntries == <<Entry("a.cz", "primary", Active), Entry("b.cz", "secondary", Active)>>
OneRow == <<RowA>>
AllTypes == 1..Len(WAPIDomainRecordType)

\* Every operation of the client, in any order
Next ==
    \/ SetTestMode
    \/ MakeRequest({"ping", "dns-domains-list"}, {None}, {None, Some("id-7")}, LeanNets)
    \/ Ping(LeanNets)
    \/ Domains(LeanNets \cup DomainNets({TwoEntries}))
    \/ Records(Handles, LeanNets \cup RowNets({OneRow}))
    \/ RecordsAsDict(Handles, LeanNets \cup RowNets({OneRow}), {TRUE})
    \/ AddRecord(Handles, LeanNets, {"www", ""}, AllTypes, {DefaultTtl, 60})
    \/ RemoveRecord(Handles, LeanNets, FewRows)
    \/ Commit(Handles, LeanNets)
    \/ DomainsAsDict({Down, Ok(Some([domain |-> Object(TwoEntries)]))},
                     {Down, Err, Ok(Some([row |-> OneRow]))}, {0}, {TRUE})

Spec == Init /\ [][Next]_vars

\* The envelope: requests and pings against every kind of answer
NextRequest ==
    \/ SetTestMode
    \/ MakeRequest({"ping", "dns-domains-list"}, {None, Some([name |-> "a.cz"])},
                   {None, Some("ping"), Some("id-7")}, CodeNets)
    \/ Ping(CodeNets)

SpecRequest == InitAt({"alice"}, {"k1"}, {9}) /\ [][NextRequest]_vars

\* The clock: every operation that posts requests, while the hours pass
NextClock ==
    \/ Tick
    \/ MakeRequest({"ping"}, {None}, {None}, {Ok(None)})
    \/ Ping({Ok(None), Err})
    \/ Domains({Ok(None)})
    \/ Records(Handles, {Ok(None)})
    \/ RecordsAsDict(Handles, {Ok(None)}, {TRUE})
    \/ AddRecord(Handles, {Ok(None)}, {"www"}, {1}, {DefaultTtl})
    \/ RemoveRecord(Handles, {Ok(None)}, {OneRow[1]})
    \/ Commit(Handles, {Ok(None)})
    \/ DomainsAsDict({Ok(Some([domain |-> Object(l)])) : l \in SeqsUpTo({TwoEntries[1]}, MaxDomains)},
                     {Err, Ok(Some([row |-> OneRow]))}, 0..(MaxDomains + 1), {TRUE})

SpecClock == InitAt(Users, Keys, 0..23) /\ [][NextClock]_vars

\* Decoding: listings of every kind of row and of every kind of domain entry
NextDecode ==
    \/ Records({open_domain("a.cz")},
               RowNets({<<r>> : r \in Rows} \cup SeqsUpTo(FewRows, MaxRows)))
    \/ RecordsAsDict({open_domain("a.cz")},
                     RowNets({<<r>> : r \in Rows} \cup SeqsUpTo(FewRows, MaxRows)), BOOLEAN)
    \/ Domains(DomainNets({<<e>> : e \in Entries} \cup SeqsUpTo(FewEntries, MaxDomains)))

SpecDecode == InitAt({"alice"}, {"k1"}, {9}) /\ [][NextDecode]_vars

\* The snapshot: listings of up to MaxDomains domains, each with its own rows
NextSnapshot ==
    \/ SetTestMode
    \/ DomainsAsDict(DomainNets(SeqsUpTo(FewEntries, MaxDomains)),
                     {Down, Err, Ok(Some([row |-> <<RowA, RowTxt>>])), Ok(Some([row |-> <<RowCnamex>>]))},
                     {0}, {TRUE})

SpecSnapshot == InitAt({"alice"}, {"k1"}, {9}) /\ [][NextSnapshot]_vars

-----------------------------------------------------------------------------
(* Properties.                                                             *)

\* The provider answered the i-th request of the latest step, and its status
\* code, as text, starts with "1"
Answered(i) == sent[i].net.up
SuccessCode(i) ==
    /\ ~IsNone(sent[i].net.code)
    /\ PyStr(Get(sent[i].net.code)) # <<>>
    /\ Head(PyStr(Get(sent[i].net.code))) = "1"

\* The raw response the i-th request was answered with
RawResponse(i) == Envelope(sent[i].body, sent[i].net)

\* C1: make_request returns a Response exactly when the status code of the
\* provider's response, as text, starts with "1"; for every other code, and
\* for a response without a code, it raises WAPIError carrying the raw
\* response.
C1_SuccessIffCodeStartsWith1 ==
    (result.op = "make_request" /\ Answered(1)) =>
        /\ Returned(result.out) <=> SuccessCode(1)
        /\ Returned(result.out) =>
              /\ result.out.value.code = Get(sent[1].net.code)
              /\ result.out.value.data = sent[1].net.data
              /\ result.out.value.command = sent[1].body.command
        /\ ~SuccessCode(1) =>
              /\ Raised(result.out, "WAPIError")
              /\ result.out.value = Some(RawResponse(1))

\* C1 witness: a response without a code field made make_request raise WAPIError
C1_Witness ==
    /\ result.op = "make_request"
    /\ Answered(1)
    /\ IsNone(sent[1].net.code)
    /\ Raised(result.out, "WAPIError")

\* C2: the envelope make_request posts carries the caller's correlation id in
\* clTRID, also when the id differs from the command.
C2_ClTRIDIsCorrelationId ==
    (result.op = "make_request" /\ ~IsNone(result.args[3])) =>
        sent[1].body.clTRID = Get(result.args[3])

\* C3: ping posts the ping command and returns TRUE on a success code, FALSE
\* on any other code, and lets a transport failure reach the caller.
C3_PingOutcome ==
    result.op = "ping" =>
        /\ Len(sent) = 1
        /\ sent[1].body.command = "ping"
        /\ (Answered(1) /\ SuccessCode(1)) => result.out = Return(TRUE)
        /\ (Answered(1) /\ ~SuccessCode(1)) => result.out = Return(FALSE)
        /\ ~Answered(1) => Raised(result.out, "ConnectionError")

\* C3 witness: a ping whose request could not be delivered raised the
\* transport's error
C3_Witness ==
    /\ result.op = "ping"
    /\ ~Answered(1)
    /\ Raised(result.out, "ConnectionError")

\* The operations of a Domain handle that stage an edit or publish the edits
IsEdit(op) == op \in {"add_record", "remove_record"}

\* The one request an edit or a commit must post, given the call's arguments
ExpectedEdit(op, args) ==
    IF op = "add_record"
    THEN [command |-> "dns-row-add",
          data |-> Some([domain |-> args[1].domain, name |-> args[2], ttl |-> args[5],
                         type |-> args[3].value, rdata |-> args[4]])]
    ELSE IF op = "remove_record"
    THEN [command |-> "dns-row-delete",
          data |-> Some([domain |-> args[1].domain, row_id |-> args[2].id])]
    ELSE [command |-> "dns-domain-commit", data |-> Some([name |-> args[1].domain])]

\* C4: add_record and remove_record each post exactly one request, dns-row-add
\* resp. dns-row-delete with the record's id, for the handle's domain, whatever
\* the outcome; dns-domain-commit is posted by commit() alone, with the
\* handle's domain name; and none of the three changes anything the client
\* holds.
C4_EditsAreNeverCommittedImplicitly ==
    [][ /\ (IsEdit(result'.op) \/ result'.op = "commit") =>
              /\ Len(sent') = 1
              /\ sent'[1].body.command = ExpectedEdit(result'.op, result'.args).command
              /\ sent'[1].body.data = ExpectedEdit(result'.op, result'.args).data
              /\ UNCHANGED <<user, key, test_mode>>
        /\ \A i \in DOMAIN sent' :
              sent'[i].body.command = "dns-domain-commit" => result'.op = "commit"
      ]_vars

\* C4 witness: a remove_record the provider refused posted its one
\* dns-row-delete request and nothing else
C4_Witness ==
    /\ result.op = "remove_record"
    /\ Raised(result.out, "WAPIError")
    /\ Len(sent) = 1
    /\ sent[1].body.command = "dns-row-delete"
    /\ sent[1].body.data = Some([domain |-> "b.cz", row_id |-> 12])

\* C5: the test-mode flag is FALSE on a new client; set_test_mode(b) makes it
\* b; no other step changes it; and every request any operation posts carries
\* test = 1 when the flag is set and test = 0 when it is not.
C5_TestFlagOnEveryRequest ==
    /\ test_mode = FALSE
    /\ [][ /\ IF result'.op = "set_test_mode"
              THEN test_mode' = result'.args[1]
              ELSE test_mode' = test_mode
           /\ \A i \in DOMAIN sent' :
                 sent'[i].body.test = (IF test_mode THEN 1 ELSE 0)
         ]_vars

\* C5 witness: with test mode on, the rows request of a Domain handle carried
\* test = 1
C5_Witness ==
    /\ test_mode = TRUE
    /\ result.op = "records"
    /\ Len(sent) = 1
    /\ sent[1].body.test = 1
    /\ sent[1].body.command = "dns-rows-list"

\* The two decimal digits of an hour
TwoDigits(h) == <<Digits[(h \div 10) + 1], Digits[(h % 10) + 1]>>

\* C9: every request carries the digest H(user + H(key) + two-digit hour) of
\* the hour at which it is posted: the digest of each request of the latest
\* step is that of the hour read for that request, the last request was posted
\* at the present hour, and an earlier one at the present hour or the hour
\* before it.
C9_DigestOfTheRequestsHour ==
    /\ \A i \in DOMAIN sent :
          /\ sent[i].body.auth = sha1(<<user, sha1(key), TwoDigits(sent[i].hour)>>)
          /\ sent[i].body.user = user
          /\ sent[i].hour \in {hour, (hour + 23) % 24}
          /\ \A j \in DOMAIN sent : i <= j /\ sent[i].hour # sent[j].hour => sent[j].hour = hour
    /\ sent # <<>> => sent[Len(sent)].hour = hour

\* C9 witness: the hour rolled over from 23 to 00 between two requests of one
\* operation, and the later request carries the digest of the new hour
C9_Witness ==
    /\ result.op = "domains_as_dict"
    /\ Len(sent) >= 2
    /\ sent[1].hour = 23
    /\ sent[2].hour = 0
    /\ hour = 0
    /\ sent[2].body.auth = sha1(<<user, sha1(key), <<"0", "0">>>>)
    /\ sent[1].body.auth # sent[2].body.auth

\* The names of the closed enums, in capitals
RecordTypeNames == {<<"A">>, <<"A", "A", "A", "A">>, <<"M", "X">>,
                    <<"S", "S", "H", "F", "P">>, <<"T", "X", "T">>}
StatusNames == {<<"A", "C", "T", "I", "V", "E">>}

\* Two texts are equal up to the case of their letters
SameLetter(a, b) ==
    a = b \/ \E k \in 1..26 : {a, b} = {Lower[k], Upper[k]}
SameIgnoringCase(s, t) ==
    Len(s) = Len(t) /\ \A k \in 1..Len(s) : SameLetter(s[k], t[k])
Recognized(s, names) == \E n \in names : SameIgnoringCase(s, n)

\* The collection the provider listed in answer to the i-th request: the rows
\* of a dns-rows-list answer, the values of the domain object of a
\* dns-domains-list answer; nothing when the answer has no data or empty data
RowsListed(i) ==
    IF sent[i].net.data \in {None, Some(<<>>)} THEN <<>>
    ELSE Get(sent[i].net.data).row
ListedRows == RowsListed(1)
ListedDomains ==
    IF sent[1].net.data \in {None, Some(<<>>)} THEN <<>>
    ELSE [i \in DOMAIN Get(sent[1].net.data).domain |-> Get(sent[1].net.data).domain[i].value]

\* C6: decoding never defaults.  When the first row records() decodes has an
\* unrecognized record type, or the first entry list_domains() decodes an
\* unrecognized status, the listing fails with WAPIError; a listing with any
\* unrecognized type or status does not return; and in a listing that returns,
\* every row and entry has the enum member its text names in any letter case.
C6_EnumDecodingNeverDefaults ==
    /\ (result.op = "records" /\ Answered(1) /\ SuccessCode(1)) =>
          /\ (ListedRows # <<>> /\ ~Recognized(ListedRows[1].rdtype, RecordTypeNames)) =>
                Raised(result.out, "WAPIError")
          /\ (\E i \in DOMAIN ListedRows : ~Recognized(ListedRows[i].rdtype, RecordTypeNames)) =>
                ~Returned(result.out)
          /\ Returned(result.out) =>
                \A i \in DOMAIN ListedRows :
                    /\ SameIgnoringCase(ListedRows[i].rdtype, result.out.value[i].record_type.name)
                    /\ result.out.value[i].record_type.name \in RecordTypeNames
                    /\ result.out.value[i].record_type.value = result.out.value[i].record_type.name
    /\ (result.op = "domains" /\ Answered(1) /\ SuccessCode(1)) =>
          /\ (\E i \in DOMAIN ListedDomains : ~Recognized(ListedDomains[i].status, StatusNames)) =>
                Raised(result.out, "WAPIError")
          /\ Returned(result.out) =>
                \A i \in DOMAIN ListedDomains :
                    /\ SameIgnoringCase(ListedDomains[i].status, Get(result.out.value[i].status).name)
                    /\ Get(result.out.value[i].status).name \in StatusNames

\* C6 witness: a listing whose row has the record type CNAMEX failed with
\* WAPIError
C6_Witness ==
    /\ result.op = "records"
    /\ Answered(1) /\ SuccessCode(1)
    /\ ListedRows # <<>>
    /\ ListedRows[1].rdtype = CNAMEX
    /\ Raised(result.out, "WAPIError")

\* C8: list_domains(), iterated to the end, posts dns-domains-list once; when
\* it ends without an error it yielded one Domain per entry of the provider's
\* collection, in the collection's order; and when the provider sent no data,
\* empty data or an empty collection it ends without an error, having yielded
\* nothing.
C8_OneDomainPerEntryInOrder ==
    result.op = "domains" =>
        /\ Len(sent) = 1
        /\ sent[1].body.command = "dns-domains-list"
        /\ Returned(result.out) =>
              /\ Len(result.out.value) = Len(ListedDomains)
              /\ \A i \in DOMAIN ListedDomains :
                    /\ result.out.value[i].domain = ListedDomains[i].name
                    /\ result.out.value[i].is_primary = Some(ListedDomains[i].type = "primary")
        /\ (Answered(1) /\ SuccessCode(1)
              /\ (\A i \in DOMAIN ListedDomains : Recognized(ListedDomains[i].status, StatusNames))) =>
              Returned(result.out)
        /\ (Answered(1) /\ SuccessCode(1)
              /\ (sent[1].net.data = None \/ sent[1].net.data = Some(<<>>)
                  \/ sent[1].net.data = Some([domain |-> <<>>]))) =>
              result.out = Return(<<>>)

\* C8 witness: a listing of two domains yielded the two, in the provider's order
C8_Witness ==
    /\ result.op = "domains"
    /\ Returned(result.out)
    /\ Len(ListedDomains) = 2
    /\ ListedDomains[1].name = "b.cz"
    /\ ListedDomains[2].name = "a.cz"
    /\ result.out.value[1].domain = "b.cz"
    /\ result.out.value[2].domain = "a.cz"

\* The number a field of digits of a text stands for
Field(s, m, n) == DigitsToNat(SubSeq(s, m, n))

\* A text in the format YYYY-MM-DD HH:MM:SS that names a moment of the
\* calendar: a year from 0001, a month, a day of that month, a time of day
IsTimestamp(s) ==
    /\ Len(s) = 19
    /\ s[5] = "-" /\ s[8] = "-" /\ s[11] = " " /\ s[14] = ":" /\ s[17] = ":"
    /\ \A k \in (1..19) \ {5, 8, 11, 14, 17} : IsDigit(s[k])
    /\ Field(s, 1, 4) >= 1
    /\ Field(s, 6, 7) \in 1..12
    /\ Field(s, 9, 10) \in 1..DaysInMonth(Field(s, 1, 4), Field(s, 6, 7))
    /\ Field(s, 12, 13) <= 23
    /\ Field(s, 15, 16) <= 59
    /\ Field(s, 18, 19) <= 59

\* A provider row that meets the round trip's conditions: ID and ttl are
\* numerals, the record type is recognized, and changed_date has the format
\* YYYY-MM-DD HH:MM:SS
RoundTripRow(row) ==
    /\ AllDigits(row.ID) /\ AllDigits(row.ttl)
    /\ Recognized(row.rdtype, RecordTypeNames)
    /\ IsTimestamp(row.changed_date)

\* C10: a listing of such rows decodes and serializes back, through
\* records_as_dict, to dictionaries with the integer id and ttl, the record
\* type's name in capitals, the original changed_date text, and the name,
\* content and author comment unchanged.
C10_RecordRoundTrip ==
    (result.op = "records_as_dict" /\ Answered(1) /\ SuccessCode(1)
        /\ \A i \in DOMAIN ListedRows : RoundTripRow(ListedRows[i])) =>
        /\ Returned(result.out)
        /\ Len(result.out.value) = Len(ListedRows)
        /\ \A i \in DOMAIN ListedRows :
              /\ result.out.value[i].id = DigitsToNat(ListedRows[i].ID)
              /\ result.out.value[i].ttl = DigitsToNat(ListedRows[i].ttl)
              /\ result.out.value[i].record_type \in RecordTypeNames
              /\ SameIgnoringCase(result.out.value[i].record_type, ListedRows[i].rdtype)
              /\ result.out.value[i].changed = ListedRows[i].changed_date
              /\ result.out.value[i].name = ListedRows[i].name
              /\ result.out.value[i].content = ListedRows[i].rdata
              /\ result.out.value[i].author_comment = ListedRows[i].author_comment

\* The dictionary records_as_dict makes of a provider row
ExpectedDict(row) ==
    [id |-> DigitsToNat(row.ID), name |-> row.name, ttl |-> DigitsToNat(row.ttl),
     record_type |-> upper(row.rdtype), content |-> row.rdata,
     changed |-> row.changed_date, author_comment |-> row.author_comment]

\* The i-th request of the latest step succeeded, and each row it listed has
\* a recognized record type
Succeeded(i) == Answered(i) /\ SuccessCode(i)
RowsDecode(i) ==
    \A k \in DOMAIN RowsListed(i) :
        Recognized(RowsListed(i)[k].rdtype, RecordTypeNames)

\* C7: domains_as_dict posts dns-domains-list and then dns-rows-list for the
\* listed domains, one each, in the listing's order.  When it returns, every
\* request succeeded, there is one request per listed domain, the keys of the
\* mapping are the listed names, and the value of a name is the rows of (the
\* last entry with) that name, in the provider's order.  When a request fails,
\* or a row or a status does not decode, that request is the last one, the
\* call raises that failure's error, and nothing is returned.
C7_SnapshotIsAllOrNothing ==
    result.op = "domains_as_dict" =>
        /\ Len(sent) >= 1
        /\ sent[1].body.command = "dns-domains-list"
        /\ ~Succeeded(1) => Len(sent) = 1
        /\ Succeeded(1) =>
              /\ Len(sent) <= 1 + Len(ListedDomains)
              /\ \A i \in 1..(Len(sent) - 1) :
                    /\ sent[i + 1].body.command = "dns-rows-list"
                    /\ sent[i + 1].body.data = Some([domain |-> ListedDomains[i].name])
                    /\ Recognized(ListedDomains[i].status, StatusNames)
              /\ Returned(result.out) <=>
                    /\ Len(sent) = 1 + Len(ListedDomains)
                    /\ \A i \in 2..Len(sent) : Succeeded(i) /\ RowsDecode(i)
              /\ Returned(result.out) =>
                    /\ DOMAIN result.out.value = {ListedDomains[i].name : i \in DOMAIN ListedDomains}
                    /\ \A i \in DOMAIN ListedDomains :
                          (\A j \in DOMAIN ListedDomains :
                               ListedDomains[j].name = ListedDomains[i].name => j <= i) =>
                              /\ Len(result.out.value[ListedDomains[i].name])
                                     = Len(RowsListed(i + 1))
                              /\ \A k \in DOMAIN RowsListed(i + 1) :
                                    result.out.value[ListedDomains[i].name][k]
                                        = ExpectedDict(RowsListed(i + 1)[k])
        /\ \A i \in DOMAIN sent :
              /\ ~Answered(i) =>
                    i = Len(sent) /\ Raised(result.out, "ConnectionError")
              /\ (Answered(i) /\ ~SuccessCode(i)) =>
                    /\ i = Len(sent)
                    /\ Raised(result.out, "WAPIError")
                    /\ result.out.value = Some(RawResponse(i))
              /\ (i >= 2 /\ Succeeded(i) /\ ~RowsDecode(i)) =>
                    i = Len(sent) /\ Raised(result.out, "WAPIError")
        /\ (Succeeded(1) /\ Len(sent) <= Len(ListedDomains)
              /\ \A i \in 2..Len(sent) : Succeeded(i) /\ RowsDecode(i)) =>
              /\ ~Recognized(ListedDomains[Len(sent)].status, StatusNames)
              /\ Raised(result.out, "WAPIError")

\* C7 witness: of two listed domains the rows of the first were fetched and
\* decoded, the row request of the second was refused, and the call raised
\* WAPIError
C7_Witness ==
    /\ result.op = "domains_as_dict"
    /\ Len(ListedDomains) = 2
    /\ Len(sent) = 3
    /\ Succeeded(2) /\ RowsDecode(2)
    /\ Len(RowsListed(2)) = 2
    /\ Answered(3) /\ ~SuccessCode(3)
    /\ Raised(result.out, "WAPIError")

====
